---- MODULE Spec2Model ----
(***************************************************************************)
(* The conversation lifecycle engine of HAL-9000: the per-channel          *)
(* conversation store (ConversationManager), the response policy           *)
(* (ResponseDecider), the message handler that drives them                 *)
(* (bot.on_message) and the cutting of replies (utils.chunk_message).      *)
(*                                                                         *)
(* Time is counted in whole seconds.  Python's None is the empty sequence  *)
(* and an Optional value x is <<x>>.  A dict is a function whose DOMAIN is *)
(* the set of keys present.  ChannelConversation objects live in a heap    *)
(* and are named by object identifiers, so that a reference held by a      *)
(* suspended handler keeps naming the same object after the store has      *)
(* dropped or replaced it.                                                 *)
(***************************************************************************)
EXTENDS Integers, Sequences, FiniteSets, TLC

\* ------------------------------------------------------------------ bounds

MaxTime == 3
MaxTimeout == 2
MaxWindow == 2
MaxLen == 2
MaxCalls == 3
MaxArrivals == 2
MaxResponseLength == 3

\* ------------------------------------------------------------- value sets

None == <<>>
Some(x) == <<x>>
TheValue(o) == o[1]

Channels == {"c1", "c2"}
DirectChannel == "dm"
BotUserId == "bot"
UserIds == {"u1", "u2"}
Handlers == {"h1", "h2"}
ObjIds == 1..(Cardinality(Channels) + Cardinality(Handlers))

Why == <<"W", "h", "y", "?">>
Ok == <<"o", "k">>
ButOk == <<"B", "u", "t", " ", "o", "k">>
WhyMe == <<"w", "h", "y", "m", "e">>
TenWords ==
    <<"a", " ", "b", " ", "c", " ", "d", " ", "e", " ",
      "f", " ", "g", " ", "h", " ", "i", " ", "j", "?">>

\* MessageRecord: one observed message.
MessageRecord(author_id, content, timestamp, is_bot) ==
    [author_id |-> author_id, content |-> content,
     timestamp |-> timestamp, is_bot |-> is_bot]

\* discord.Message, as far as the handler and the decider read it
Message(id, author_id, channel_id, content, mentions, reference, created_at) ==
    [id |-> id, author_id |-> author_id, channel_id |-> channel_id, content |-> content,
     mentions |-> mentions, reference |-> reference, created_at |-> created_at]

VARIABLES
    now,              \* datetime.now(timezone.utc), in seconds
    timeout,          \* ConversationManager.timeout
    followup_window,  \* ResponseDecider.followup_window_seconds
    conversations,    \* ConversationManager._conversations: channel -> object id
    heap,             \* object id -> ChannelConversation fields
    ret,              \* the last store call: operation, channel and returned value
    calls,            \* how many store calls were made so far
    decided,          \* the last ResponseDecider call: its arguments and its result
    handlers,         \* the on_message coroutines: where each one stands
    channel_history,  \* the messages posted in each text channel, oldest first
    arrivals,         \* how many messages were delivered to on_message so far
    chunker           \* a chunk_message call: its arguments, its loop and its result

vars == <<now, timeout, followup_window, conversations, heap, ret, calls, decided,
          handlers, channel_history, arrivals, chunker>>

\* what the message handler adds to the state
glue == <<handlers, channel_history, arrivals, chunker>>

\* ------------------------------------------------------- ChannelConversation

ChannelConversation(channel_id, started_at, last_activity, messages) ==
    [channel_id |-> channel_id,
     started_at |-> started_at,
     last_activity |-> last_activity,
     messages |-> messages,
     llm_history |-> <<>>,
     participants |-> {},
     last_bot_response |-> None]

\* dict.get(key): the value, or None
DictGet(d, k) == IF k \in DOMAIN d THEN Some(d[k]) ELSE None

\* del d[key] / d.pop(key, None)
DictDel(d, k) == [x \in (DOMAIN d) \ {k} |-> d[x]]

\* d[key] = value
DictPut(d, k, v) == [x \in (DOMAIN d) \cup {k} |-> IF x = k THEN v ELSE d[x]]

Range(f) == {f[x] : x \in DOMAIN f}

\* An object nothing refers to any more is gone: only the objects the store or
\* a holder of a reference (refs) still names are kept.
Collect(hp, convs, refs) ==
    [i \in (DOMAIN hp) \cap (Range(convs) \cup refs) |-> hp[i]]

NewObjId(hp) == CHOOSE i \in ObjIds \ DOMAIN hp : \A j \in ObjIds \ DOMAIN hp : i <= j

\* ------------------------------------------------------- ConversationManager

\* get with the expiry test off by one: an entry is dropped at elapsed = timeout
get_expiring_at_timeout(convs, hp, tmo, t, channel_id) ==
    LET conv == DictGet(convs, channel_id) IN
    IF conv = None
    THEN [conversations |-> convs, value |-> None]
    ELSE LET elapsed == t - hp[TheValue(conv)].last_activity IN
         IF elapsed >= tmo
         THEN [conversations |-> DictDel(convs, channel_id), value |-> None]
         ELSE [conversations |-> convs, value |-> conv]

\* get removing the expired entries of all channels on its way
get_sweeping(convs, hp, tmo, t, channel_id) ==
    LET kept == [d \in {x \in DOMAIN convs : t - hp[convs[x]].last_activity <= tmo}
                    |-> convs[d]]
    IN [conversations |-> kept, value |-> DictGet(kept, channel_id)]

\* get without the expiry test
get_never_expiring(convs, hp, tmo, t, channel_id) ==
    [conversations |-> convs, value |-> DictGet(convs, channel_id)]

\* get(channel_id): the live conversation, or None; an expired entry is deleted.
get(convs, hp, tmo, t, channel_id) ==
    LET conv == DictGet(convs, channel_id) IN
    IF conv = None
    THEN [conversations |-> convs, value |-> None]
    ELSE LET elapsed == t - hp[TheValue(conv)].last_activity IN
         IF elapsed > tmo
         THEN [conversations |-> DictDel(convs, channel_id), value |-> None]
         ELSE [conversations |-> convs, value |-> conv]

\* the loop of start leaving after its first round
AddParticipants_first_only(participants, msgs) ==
    IF msgs = <<>> THEN participants
    ELSE participants \cup {Head(msgs).author_id}

\* the loop of start: conv.participants.add(msg.author_id) for each message
RECURSIVE AddParticipants(_, _)
AddParticipants(participants, msgs) ==
    IF msgs = <<>> THEN participants
    ELSE AddParticipants(participants \cup {Head(msgs).author_id}, Tail(msgs))

\* start carrying the prior turns and the reply time of the entry it replaces
start_keeping_history(convs, hp, t, channel_id, initial_messages) ==
    LET id == NewObjId(hp)
        conv == ChannelConversation(channel_id, t, t, initial_messages)
        seeded == [conv EXCEPT !.participants =
                      AddParticipants(conv.participants, initial_messages)]
        kept == IF channel_id \in DOMAIN convs
                THEN [seeded EXCEPT !.llm_history = hp[convs[channel_id]].llm_history,
                                    !.last_bot_response =
                                        hp[convs[channel_id]].last_bot_response]
                ELSE seeded
    IN [conversations |-> DictPut(convs, channel_id, id),
        heap |-> DictPut(hp, id, kept),
        value |-> id]

\* start(channel_id, initial_messages): a fresh object replaces the entry.
start(convs, hp, t, channel_id, initial_messages) ==
    LET id == NewObjId(hp)
        conv == ChannelConversation(channel_id, t, t, initial_messages)
        seeded == [conv EXCEPT !.participants =
                      AddParticipants(conv.participants, initial_messages)]
    IN [conversations |-> DictPut(convs, channel_id, id),
        heap |-> DictPut(hp, id, seeded),
        value |-> id]

\* record_message taking last_activity from the message's own timestamp
record_message_rewinding(convs, hp, t, channel_id, message) ==
    LET conv == DictGet(convs, channel_id) IN
    IF conv = None
    THEN [conversations |-> convs, heap |-> hp]
    ELSE [conversations |-> convs,
          heap |-> [hp EXCEPT ![TheValue(conv)] =
                      [@ EXCEPT !.last_activity = message.timestamp,
                                !.messages = Append(@, message),
                                !.participants = @ \cup {message.author_id}]]]

\* record_message forgetting the author of the message
record_message_without_participant(convs, hp, t, channel_id, message) ==
    LET conv == DictGet(convs, channel_id) IN
    IF conv = None
    THEN [conversations |-> convs, heap |-> hp]
    ELSE [conversations |-> convs,
          heap |-> [hp EXCEPT ![TheValue(conv)] =
                      [@ EXCEPT !.last_activity = t,
                                !.messages = Append(@, message)]]]

\* record_message counting the message as a reply of the assistant
record_message_as_reply(convs, hp, t, channel_id, message) ==
    LET conv == DictGet(convs, channel_id) IN
    IF conv = None
    THEN [conversations |-> convs, heap |-> hp]
    ELSE [conversations |-> convs,
          heap |-> [hp EXCEPT ![TheValue(conv)] =
                      [@ EXCEPT !.last_activity = t,
                                !.messages = Append(@, message),
                                !.participants = @ \cup {message.author_id},
                                !.last_bot_response = Some(t)]]]

\* record_message inserting the message at the front of the list
record_message_prepending(convs, hp, t, channel_id, message) ==
    LET conv == DictGet(convs, channel_id) IN
    IF conv = None
    THEN [conversations |-> convs, heap |-> hp]
    ELSE [conversations |-> convs,
          heap |-> [hp EXCEPT ![TheValue(conv)] =
                      [@ EXCEPT !.last_activity = t,
                                !.messages = <<message>> \o @,
                                !.participants = @ \cup {message.author_id}]]]

\* record_message leaving last_activity as it was
record_message_without_bump(convs, hp, t, channel_id, message) ==
    LET conv == DictGet(convs, channel_id) IN
    IF conv = None
    THEN [conversations |-> convs, heap |-> hp]
    ELSE [conversations |-> convs,
          heap |-> [hp EXCEPT ![TheValue(conv)] =
                      [@ EXCEPT !.messages = Append(@, message),
                                !.participants = @ \cup {message.author_id}]]]

\* record_message(channel_id, message)
record_message(convs, hp, t, channel_id, message) ==
    LET conv == DictGet(convs, channel_id) IN
    IF conv = None
    THEN [conversations |-> convs, heap |-> hp]
    ELSE [conversations |-> convs,
          heap |-> [hp EXCEPT ![TheValue(conv)] =
                      [@ EXCEPT !.last_activity = t,
                                !.messages = Append(@, message),
                                !.participants = @ \cup {message.author_id}]]]

\* record_bot_response adding the turns to the stored ones
record_bot_response_appending(convs, hp, t, channel_id, llm_history) ==
    LET conv == DictGet(convs, channel_id) IN
    IF conv = None
    THEN [conversations |-> convs, heap |-> hp]
    ELSE [conversations |-> convs,
          heap |-> [hp EXCEPT ![TheValue(conv)] =
                      [@ EXCEPT !.llm_history = @ \o llm_history,
                                !.last_bot_response = Some(t)]]]

\* record_bot_response creating the entry it does not find
record_bot_response_creating(convs, hp, t, channel_id, llm_history) ==
    LET conv == DictGet(convs, channel_id) IN
    IF conv = None
    THEN LET id == NewObjId(hp) IN
         [conversations |-> DictPut(convs, channel_id, id),
          heap |-> DictPut(hp, id,
                      [ChannelConversation(channel_id, t, t, <<>>)
                          EXCEPT !.llm_history = llm_history,
                                 !.last_bot_response = Some(t)])]
    ELSE [conversations |-> convs,
          heap |-> [hp EXCEPT ![TheValue(conv)] =
                      [@ EXCEPT !.llm_history = llm_history,
                                !.last_bot_response = Some(t)]]]

\* record_bot_response counting the reply as activity
record_bot_response_bumping(convs, hp, t, channel_id, llm_history) ==
    LET conv == DictGet(convs, channel_id) IN
    IF conv = None
    THEN [conversations |-> convs, heap |-> hp]
    ELSE [conversations |-> convs,
          heap |-> [hp EXCEPT ![TheValue(conv)] =
                      [@ EXCEPT !.llm_history = llm_history,
                                !.last_bot_response = Some(t),
                                !.last_activity = t]]]

\* record_bot_response(channel_id, llm_history)
record_bot_response(convs, hp, t, channel_id, llm_history) ==
    LET conv == DictGet(convs, channel_id) IN
    IF conv = None
    THEN [conversations |-> convs, heap |-> hp]
    ELSE [conversations |-> convs,
          heap |-> [hp EXCEPT ![TheValue(conv)] =
                      [@ EXCEPT !.llm_history = llm_history,
                                !.last_bot_response = Some(t)]]]

\* end emptying the store when the channel has no entry
end_clearing_on_missing(convs, channel_id) ==
    IF channel_id \in DOMAIN convs THEN DictDel(convs, channel_id) ELSE <<>>

\* end(channel_id)
end(convs, channel_id) == DictDel(convs, channel_id)

\* ------------------------------------------------------------ ResponseDecider

\* message.reference: None, or a reference whose resolved target is None (not
\* resolved), a deleted-message placeholder, or a Message with an author.
ResolvedMessage(author_id) == [type |-> "Message", author_id |-> author_id]
DeletedReferencedMessage == [type |-> "DeletedReferencedMessage"]
MessageReference(resolved) == [resolved |-> resolved]

References ==
    {None, Some(MessageReference(None)),
     Some(MessageReference(Some(DeletedReferencedMessage)))}
    \cup {Some(MessageReference(Some(ResolvedMessage(a)))) : a \in UserIds \cup {BotUserId}}

\* _is_explicit_trigger(message, bot_user_id)
_is_explicit_trigger(message, bot_user_id) ==
    IF bot_user_id \in message.mentions
    THEN TRUE
    ELSE IF message.reference # None /\ TheValue(message.reference).resolved # None
         THEN LET referenced == TheValue(TheValue(message.reference).resolved) IN
              referenced.type = "Message" /\ referenced.author_id = bot_user_id
         ELSE FALSE

\* _seconds_since_bot_spoke(conversation): None, or the elapsed seconds
_seconds_since_bot_spoke(conversation, t) ==
    IF conversation.last_bot_response = None
    THEN None
    ELSE Some(t - TheValue(conversation.last_bot_response))

UpperCase == <<"A", "B", "C", "D", "E", "F", "G", "H", "I", "J", "K", "L", "M",
               "N", "O", "P", "Q", "R", "S", "T", "U", "V", "W", "X", "Y", "Z">>
LowerCase == <<"a", "b", "c", "d", "e", "f", "g", "h", "i", "j", "k", "l", "m",
               "n", "o", "p", "q", "r", "s", "t", "u", "v", "w", "x", "y", "z">>

\* str.lower(), one character at a time
LowerChar(ch) ==
    IF \E i \in 1..26 : UpperCase[i] = ch
    THEN LowerCase[CHOOSE i \in 1..26 : UpperCase[i] = ch]
    ELSE ch
Lower(text) == [i \in 1..Len(text) |-> LowerChar(text[i])]

IsSpace(ch) == ch \in {" ", "\n", "\t"}

\* len(content.split()): the number of maximal runs of non-whitespace
WordCount(text) ==
    Cardinality({i \in 1..Len(text) :
        ~IsSpace(text[i]) /\ (i = 1 \/ IsSpace(text[i - 1]))})

\* content.startswith(prefix)
StartsWith(text, prefix) ==
    Len(text) >= Len(prefix) /\ SubSeq(text, 1, Len(prefix)) = prefix

starters ==
    {<<"a", "n", "d", " ">>,
     <<"a", "l", "s", "o", " ">>,
     <<"w", "h", "a", "t", " ", "a", "b", "o", "u", "t", " ">>,
     <<"h", "o", "w", " ", "a", "b", "o", "u", "t", " ">>,
     <<"w", "h", "y", " ">>,
     <<"b", "u", "t", " ">>}

\* _looks_like_followup taking a question of any length
_looks_like_followup_any_length(message) ==
    LET content == Lower(message.content) IN
    IF \E i \in 1..Len(content) : content[i] = "?"
    THEN TRUE
    ELSE IF \E s \in starters : StartsWith(content, s)
         THEN TRUE
         ELSE FALSE

\* _looks_like_followup(message)
_looks_like_followup(message) ==
    LET content == Lower(message.content) IN
    IF WordCount(content) < 10 /\ (\E i \in 1..Len(content) : content[i] = "?")
    THEN TRUE
    ELSE IF \E s \in starters : StartsWith(content, s)
         THEN TRUE
         ELSE FALSE

\* should_start_conversation reporting the reply form before the mention form
should_start_conversation_reply_first(message, bot_user_id) ==
    IF _is_explicit_trigger(message, bot_user_id)
    THEN IF /\ message.reference # None
            /\ TheValue(message.reference).resolved # None
            /\ TheValue(TheValue(message.reference).resolved).type = "Message"
            /\ TheValue(TheValue(message.reference).resolved).author_id = bot_user_id
         THEN <<TRUE, "reply_to_bot">>
         ELSE <<TRUE, "explicit_mention">>
    ELSE <<FALSE, "no_trigger">>

\* should_start_conversation accepting a followup-shaped message as well
should_start_conversation_on_followup(message, bot_user_id) ==
    IF _is_explicit_trigger(message, bot_user_id)
    THEN IF bot_user_id \in message.mentions
         THEN <<TRUE, "explicit_mention">>
         ELSE <<TRUE, "reply_to_bot">>
    ELSE IF _looks_like_followup(message)
         THEN <<TRUE, "recent_followup">>
         ELSE <<FALSE, "no_trigger">>

\* should_start_conversation(message, bot_user_id)
should_start_conversation(message, bot_user_id) ==
    IF _is_explicit_trigger(message, bot_user_id)
    THEN IF bot_user_id \in message.mentions
         THEN <<TRUE, "explicit_mention">>
         ELSE <<TRUE, "reply_to_bot">>
    ELSE <<FALSE, "no_trigger">>

\* should_respond with the followup window test off by one
should_respond_window_inclusive(message, conversation, bot_user_id, t, window) ==
    IF _is_explicit_trigger(message, bot_user_id)
    THEN <<TRUE, "explicit_trigger">>
    ELSE LET seconds_since_bot_spoke == _seconds_since_bot_spoke(conversation, t) IN
         IF /\ seconds_since_bot_spoke # None
            /\ TheValue(seconds_since_bot_spoke) <= window
            /\ _looks_like_followup(message)
         THEN <<TRUE, "recent_followup">>
         ELSE <<FALSE, "no_trigger">>

\* should_respond with the followup tier evaluated before the trigger tier
should_respond_followup_first(message, conversation, bot_user_id, t, window) ==
    LET seconds_since_bot_spoke == _seconds_since_bot_spoke(conversation, t) IN
    IF /\ seconds_since_bot_spoke # None
       /\ TheValue(seconds_since_bot_spoke) < window
       /\ _looks_like_followup(message)
    THEN <<TRUE, "recent_followup">>
    ELSE IF _is_explicit_trigger(message, bot_user_id)
         THEN <<TRUE, "explicit_trigger">>
         ELSE <<FALSE, "no_trigger">>

\* should_respond(message, conversation, bot_user_id)
should_respond(message, conversation, bot_user_id, t, window) ==
    IF _is_explicit_trigger(message, bot_user_id)
    THEN <<TRUE, "explicit_trigger">>
    ELSE LET seconds_since_bot_spoke == _seconds_since_bot_spoke(conversation, t) IN
         IF /\ seconds_since_bot_spoke # None
            /\ TheValue(seconds_since_bot_spoke) < window
            /\ _looks_like_followup(message)
         THEN <<TRUE, "recent_followup">>
         ELSE <<FALSE, "no_trigger">>

\* ------------------------------------------------ the store, called directly

\* The messages and prior-turn histories handed to the store by its callers.
StoreMessage(a) == MessageRecord(a, Why, 0, FALSE)
StoreMessages == {StoreMessage(a) : a \in UserIds}
SeedLists ==
    {<<>>, <<StoreMessage("u1")>>, <<StoreMessage("u2"), StoreMessage("u1")>>,
     <<StoreMessage("u2"), StoreMessage("u2")>>}
Histories == {<<"turn1">>, <<"turn1", "turn2">>}

\* ret.arg: the argument the call was given besides the channel, if any;
\* ret.found: whether the channel had an entry when the call was made
NoCall ==
    [op |-> "none", channel_id |-> "", arg |-> None, value |-> None, found |-> FALSE]
NoDecision == [op |-> "none"]

\* no chunk_message call is being followed
NoChunking ==
    [pc |-> "none", text |-> <<>>, max_length |-> 0, remaining |-> <<>>, chunks |-> <<>>]

\* a coroutine slot in which no on_message call is running
Idle ==
    [pc |-> "idle", message |-> None, conversation |-> None, reason |-> "",
     chunks |-> <<>>, new_messages |-> <<>>, sent |-> 0, delivered |-> <<>>]

StoreInit ==
    /\ now = 0
    /\ timeout \in 1..MaxTimeout
    /\ followup_window = MaxWindow
    /\ conversations = <<>>
    /\ heap = <<>>
    /\ ret = NoCall
    /\ calls = 0
    /\ decided = NoDecision
    /\ handlers = [h \in Handlers |-> Idle]
    /\ channel_history = [c \in Channels |-> <<>>]
    /\ arrivals = 0
    /\ chunker = NoChunking

\* one more call of a store operation, by whoever holds the store
Called(op, c, arg, value) ==
    /\ calls < MaxCalls
    /\ calls' = calls + 1
    /\ ret' = [op |-> op, channel_id |-> c, arg |-> arg, value |-> value,
               found |-> c \in DOMAIN conversations]

\* the clock advances by one second
Tick ==
    /\ now < MaxTime
    /\ now' = now + 1
    /\ UNCHANGED <<timeout, followup_window, conversations, heap, ret, calls, decided, glue>>

\* get marking the conversation it returns as just used
Get_touching(c) ==
    LET r == get(conversations, heap, timeout, now, c)
        touched == IF r.value = None THEN heap
                   ELSE [heap EXCEPT ![TheValue(r.value)].last_activity = now]
    IN
    /\ Called("get", c, None, r.value)
    /\ conversations' = r.conversations
    /\ heap' = Collect(touched, r.conversations, {})
    /\ UNCHANGED <<now, timeout, followup_window, decided, glue>>

Get(c) ==
    LET r == get(conversations, heap, timeout, now, c) IN
    /\ Called("get", c, None, r.value)
    /\ conversations' = r.conversations
    /\ heap' = Collect(heap, r.conversations, {})
    /\ UNCHANGED <<now, timeout, followup_window, decided, glue>>

Start(c, initial_messages) ==
    LET r == start(conversations, heap, now, c, initial_messages) IN
    /\ Called("start", c, Some(initial_messages), Some(r.value))
    /\ conversations' = r.conversations
    /\ heap' = Collect(r.heap, r.conversations, {})
    /\ UNCHANGED <<now, timeout, followup_window, decided, glue>>

RecordMessage(c, message) ==
    LET r == record_message(conversations, heap, now, c, message) IN
    /\ c \in DOMAIN conversations => Len(heap[conversations[c]].messages) < MaxLen
    /\ Called("record_message", c, Some(message), None)
    /\ conversations' = r.conversations
    /\ heap' = Collect(r.heap, r.conversations, {})
    /\ UNCHANGED <<now, timeout, followup_window, decided, glue>>

RecordBotResponse(c, llm_history) ==
    LET r == record_bot_response(conversations, heap, now, c, llm_history) IN
    /\ Called("record_bot_response", c, Some(llm_history), None)
    /\ conversations' = r.conversations
    /\ heap' = Collect(r.heap, r.conversations, {})
    /\ UNCHANGED <<now, timeout, followup_window, decided, glue>>

End(c) ==
    /\ Called("end", c, None, None)
    /\ conversations' = end(conversations, c)
    /\ heap' = Collect(heap, conversations', {})
    /\ UNCHANGED <<now, timeout, followup_window, decided, glue>>

StoreNext ==
    \/ Tick
    \/ \E c \in Channels : Get(c)
    \/ \E c \in Channels, seed \in SeedLists : Start(c, seed)
    \/ \E c \in Channels, m \in StoreMessages : RecordMessage(c, m)
    \/ \E c \in Channels, h \in Histories : RecordBotResponse(c, h)
    \/ \E c \in Channels : End(c)

StoreSpec == StoreInit /\ [][StoreNext]_vars

\* ---------------------------------------------- the decider, called directly

DeciderContents == {Why, Ok, ButOk, WhyMe, TenWords}
MentionSets == {{}, {BotUserId}, {"u2"}, {BotUserId, "u2"}}
DeciderMessages ==
    {Message(1, "u1", "c1", content, mentions, reference, 0) :
        content \in DeciderContents, mentions \in MentionSets, reference \in References}

\* a conversation in which the assistant last replied at last_bot_response
ConversationSpokenAt(last_bot_response) ==
    [ChannelConversation("c1", 0, 0, <<>>)
        EXCEPT !.last_bot_response = last_bot_response]

DeciderInit ==
    /\ now = 0
    /\ timeout = MaxTimeout
    /\ followup_window \in 1..MaxWindow
    /\ conversations = <<>>
    /\ heap = <<>>
    /\ ret = NoCall
    /\ calls = 0
    /\ decided = NoDecision
    /\ handlers = [h \in Handlers |-> Idle]
    /\ channel_history = [c \in Channels |-> <<>>]
    /\ arrivals = 0
    /\ chunker = NoChunking

\* In this specification each behaviour is one call of the decider, made at an
\* arbitrary time on an arbitrary message and conversation.
ShouldStartConversation(message) ==
    /\ decided = NoDecision
    /\ handlers = [h \in Handlers |-> Idle]
    /\ channel_history = [c \in Channels |-> <<>>]
    /\ arrivals = 0
    /\ decided' = [op |-> "should_start_conversation", message |-> message,
                   result |-> should_start_conversation(message, BotUserId)]
    /\ UNCHANGED <<now, timeout, followup_window, conversations, heap, ret, calls, glue>>

ShouldRespond(message, conversation) ==
    /\ decided = NoDecision
    /\ handlers = [h \in Handlers |-> Idle]
    /\ channel_history = [c \in Channels |-> <<>>]
    /\ arrivals = 0
    /\ decided' = [op |-> "should_respond", message |-> message,
                   conversation |-> conversation, at |-> now,
                   result |-> should_respond(message, conversation, BotUserId,
                                             now, followup_window)]
    /\ UNCHANGED <<now, timeout, followup_window, conversations, heap, ret, calls, glue>>

\* the contents _looks_like_followup is tried on: questions of nine and of ten
\* words, ten words with and without a continuation word, a continuation word
\* in capitals, one without its space, and the empty content
NineWords ==
    <<"a", " ", "b", " ", "c", " ", "d", " ", "e", " ",
      "f", " ", "g", " ", "h", " ", "i", "?">>
TenWordsPlain ==
    <<"a", " ", "b", " ", "c", " ", "d", " ", "e", " ",
      "f", " ", "g", " ", "h", " ", "i", " ", "j">>
TenWordsBut ==
    <<"B", "U", "T", " ", "b", " ", "c", " ", "d", " ", "e", " ",
      "f", " ", "g", " ", "h", " ", "i", " ", "j">>
TenWordsWhy ==
    <<"w", "h", "y", " ", "b", " ", "c", " ", "d", " ", "e", " ",
      "f", " ", "g", " ", "h", " ", "i", " ", "j", "?">>
FollowupContents ==
    {Why, Ok, ButOk, WhyMe, TenWords,
     NineWords, TenWordsPlain, TenWordsBut, TenWordsWhy, <<>>, <<"?">>,
     <<"a", "l", "s", "o">>, <<" ", "a", "n", "d", " ", "x">>,
     <<"a", "\n", "b", "\t", "?">>}

FollowupMessages ==
    {Message(1, "u1", "c1", content, {}, None, 0) : content \in FollowupContents}

LooksLikeFollowup(message) ==
    /\ decided = NoDecision
    /\ handlers = [h \in Handlers |-> Idle]
    /\ channel_history = [c \in Channels |-> <<>>]
    /\ arrivals = 0
    /\ decided' = [op |-> "_looks_like_followup", message |-> message,
                   result |-> _looks_like_followup(message)]
    /\ UNCHANGED <<now, timeout, followup_window, conversations, heap, ret, calls, glue>>

DeciderNext ==
    \/ Tick
    \/ \E m \in FollowupMessages : LooksLikeFollowup(m)
    \/ \E m \in DeciderMessages : ShouldStartConversation(m)
    \/ \E m \in DeciderMessages, spoke \in {None} \cup {Some(t) : t \in 0..now} :
          ShouldRespond(m, ConversationSpokenAt(spoke))

DeciderSpec == DeciderInit /\ [][DeciderNext]_vars

\* ------------------------------------------------------------ chunk_message

Max(S) == CHOOSE x \in S : \A y \in S : y <= x
Min(S) == CHOOSE x \in S : \A y \in S : x <= y

\* text.rfind(sub): the last position (from 0) at which sub occurs, or -1
RFind(text, sub) ==
    LET hits == {i \in 0..(Len(text) - Len(sub)) :
                    SubSeq(text, i + 1, i + Len(sub)) = sub}
    IN IF hits = {} THEN -1 ELSE Max(hits)

\* text[:n] and text[n:]
Take(text, n) == SubSeq(text, 1, IF n < Len(text) THEN n ELSE Len(text))
Drop(text, n) == SubSeq(text, n + 1, Len(text))

\* text.strip()
Strip(text) ==
    LET keep == {i \in 1..Len(text) : ~IsSpace(text[i])}
    IN IF keep = {} THEN <<>> ELSE SubSeq(text, Min(keep), Max(keep))

\* the while loop of chunk_message
RECURSIVE chunk_loop(_, _, _)
chunk_loop(remaining, chunks, max_length) ==
    IF remaining = <<>>
    THEN chunks
    ELSE IF Len(remaining) <= max_length
    THEN Append(chunks, remaining)
    ELSE LET chunk == Take(remaining, max_length)
             paragraph == RFind(chunk, <<"\n", "\n">>)
             sentence == IF paragraph = -1
                         THEN IF RFind(chunk, <<".", " ">>) # -1
                              THEN RFind(chunk, <<".", " ">>) + 1
                              ELSE -1
                         ELSE paragraph
             space == IF sentence = -1 THEN RFind(chunk, <<" ">>) ELSE sentence
             split_pos == IF space = -1 THEN max_length ELSE space
         IN chunk_loop(Strip(Drop(remaining, split_pos)),
                       Append(chunks, Strip(Take(remaining, split_pos))),
                       max_length)

\* chunk_message(text, max_length)
chunk_message(text, max_length) ==
    IF Len(text) <= max_length
    THEN <<text>>
    ELSE chunk_loop(text, <<>>, max_length)

\* ------------------------------------- chunk_message, one loop round a step

MaxTextLen == 6
MaxChunkLength == 5

\* the characters the boundaries are made of, and one that is no boundary
Alphabet == {"a", " ", ".", "\n"}
Texts == UNION {[1..n -> Alphabet] : n \in 0..MaxTextLen}

\* no call is followed for more rounds than this
MaxChunks == MaxTextLen + 1

\* the hard cut taking one character more than max_length
split_pos_overlong(remaining, max_length) ==
    LET chunk == Take(remaining, max_length) IN
    IF RFind(chunk, <<"\n", "\n">>) # -1 THEN RFind(chunk, <<"\n", "\n">>)
    ELSE IF RFind(chunk, <<".", " ">>) # -1 THEN RFind(chunk, <<".", " ">>) + 1
    ELSE IF RFind(chunk, <<" ">>) # -1 THEN RFind(chunk, <<" ">>)
    ELSE max_length + 1

\* the sentence boundary tried before the paragraph boundary
split_pos_sentence_first(remaining, max_length) ==
    LET chunk == Take(remaining, max_length) IN
    IF RFind(chunk, <<".", " ">>) # -1 THEN RFind(chunk, <<".", " ">>) + 1
    ELSE IF RFind(chunk, <<"\n", "\n">>) # -1 THEN RFind(chunk, <<"\n", "\n">>)
    ELSE IF RFind(chunk, <<" ">>) # -1 THEN RFind(chunk, <<" ">>)
    ELSE max_length

\* the hard cut taking one character less than max_length
split_pos_short_hard_cut(remaining, max_length) ==
    LET chunk == Take(remaining, max_length) IN
    IF RFind(chunk, <<"\n", "\n">>) # -1 THEN RFind(chunk, <<"\n", "\n">>)
    ELSE IF RFind(chunk, <<".", " ">>) # -1 THEN RFind(chunk, <<".", " ">>) + 1
    ELSE IF RFind(chunk, <<" ">>) # -1 THEN RFind(chunk, <<" ">>)
    ELSE IF max_length > 1 THEN max_length - 1 ELSE max_length

\* lines 34-49: where the loop cuts a remaining text longer than max_length
split_pos(remaining, max_length) ==
    LET chunk == Take(remaining, max_length) IN
    IF RFind(chunk, <<"\n", "\n">>) # -1 THEN RFind(chunk, <<"\n", "\n">>)
    ELSE IF RFind(chunk, <<".", " ">>) # -1 THEN RFind(chunk, <<".", " ">>) + 1
    ELSE IF RFind(chunk, <<" ">>) # -1 THEN RFind(chunk, <<" ">>)
    ELSE max_length

ChunkInit ==
    /\ now = 0
    /\ timeout = MaxTimeout
    /\ followup_window = MaxWindow
    /\ conversations = <<>>
    /\ heap = <<>>
    /\ ret = NoCall
    /\ calls = 0
    /\ decided = NoDecision
    /\ handlers = [h \in Handlers |-> Idle]
    /\ channel_history = [c \in Channels |-> <<>>]
    /\ arrivals = 0
    /\ chunker \in {[pc |-> "call", text |-> text, max_length |-> max_length,
                     remaining |-> <<>>, chunks |-> <<>>] :
                        text \in Texts, max_length \in 0..MaxChunkLength}

\* the early return stripping the text like the loop strips its chunks
ChunkCall_stripping ==
    /\ chunker.pc = "call"
    /\ chunker' =
          IF Len(chunker.text) <= chunker.max_length
          THEN [chunker EXCEPT !.pc = "done", !.chunks = <<Strip(chunker.text)>>]
          ELSE [chunker EXCEPT !.pc = "loop", !.remaining = chunker.text]
    /\ UNCHANGED <<now, timeout, followup_window, conversations, heap, ret, calls,
                   decided, handlers, channel_history, arrivals>>

\* lines 22-26: a text that fits is returned as it is; else the loop is entered
ChunkCall ==
    /\ chunker.pc = "call"
    /\ chunker' =
          IF Len(chunker.text) <= chunker.max_length
          THEN [chunker EXCEPT !.pc = "done", !.chunks = <<chunker.text>>]
          ELSE [chunker EXCEPT !.pc = "loop", !.remaining = chunker.text]
    /\ UNCHANGED <<now, timeout, followup_window, conversations, heap, ret, calls,
                   decided, handlers, channel_history, arrivals>>

\* a round of the loop that goes on one character behind the cut
ChunkRound_skipping ==
    LET remaining == chunker.remaining
        max_length == chunker.max_length
        at == split_pos(remaining, max_length)
    IN
    /\ chunker.pc = "loop"
    /\ Len(chunker.chunks) < MaxChunks
    /\ chunker' =
          IF remaining = <<>>
          THEN [chunker EXCEPT !.pc = "done"]
          ELSE IF Len(remaining) <= max_length
          THEN [chunker EXCEPT !.pc = "done", !.chunks = Append(@, remaining)]
          ELSE [chunker EXCEPT !.chunks = Append(@, Strip(Take(remaining, at))),
                               !.remaining = Strip(Drop(remaining, at + 1))]
    /\ UNCHANGED <<now, timeout, followup_window, conversations, heap, ret, calls,
                   decided, handlers, channel_history, arrivals>>

\* lines 28-52: one round of the while loop
ChunkRound ==
    LET remaining == chunker.remaining
        max_length == chunker.max_length
        at == split_pos(remaining, max_length)
    IN
    /\ chunker.pc = "loop"
    /\ Len(chunker.chunks) < MaxChunks
    /\ chunker' =
          IF remaining = <<>>
          THEN [chunker EXCEPT !.pc = "done"]
          ELSE IF Len(remaining) <= max_length
          THEN [chunker EXCEPT !.pc = "done", !.chunks = Append(@, remaining)]
          ELSE [chunker EXCEPT !.chunks = Append(@, Strip(Take(remaining, at))),
                               !.remaining = Strip(Drop(remaining, at))]
    /\ UNCHANGED <<now, timeout, followup_window, conversations, heap, ret, calls,
                   decided, handlers, channel_history, arrivals>>

ChunkNext == ChunkCall \/ ChunkRound

ChunkSpec == ChunkInit /\ [][ChunkNext]_vars

\* ------------------------------------------------------------- bot.on_message

\* isinstance(message.channel, discord.TextChannel)
IsTextChannel(channel_id) == channel_id \in Channels

\* the messages the platform delivers: plain talk, a followup-shaped question,
\* a mention, a reply to the assistant, the assistant's own message and a
\* mention outside a text channel.  created_at counts the messages posted: message n is the n-th one.
Inbound(id) ==
    {Message(id, "u2", "c1", Ok, {}, None, id),
     Message(id, "u1", "c1", Why, {}, None, id),
     Message(id, "u1", "c1", Ok, {BotUserId}, None, id),
     Message(id, "u2", "c1", Ok, {},
             Some(MessageReference(Some(ResolvedMessage(BotUserId)))), id),
     Message(id, BotUserId, "c1", Ok, {}, None, id),
     Message(id, "u1", DirectChannel, Ok, {BotUserId}, None, id)}

\* the replies the generation backend gives: one that fits and one that is cut
Responses == {<<"h", "i">>, <<"a", "b", " ", "c", "d">>}

\* MessageRecord(author=..., author_id=..., content=..., timestamp=..., is_bot=...)
ToRecord(message) ==
    MessageRecord(message.author_id, message.content, message.created_at, FALSE)

RECURSIVE Reverse(_)
Reverse(seq) == IF seq = <<>> THEN <<>> ELSE Append(Reverse(Tail(seq)), Head(seq))

RECURSIVE SkipOwn(_)
SkipOwn(seq) ==
    IF seq = <<>> THEN <<>>
    ELSE IF Head(seq).author_id = BotUserId THEN SkipOwn(Tail(seq))
    ELSE <<ToRecord(Head(seq))>> \o SkipOwn(Tail(seq))

HistoryLimit == 20

\* load_recent_messages_for_conversation: what it can return for a channel.
\* The newest HistoryLimit messages are read newest first, the assistant's own
\* are skipped, and an exception ends the reading early; the list collected up
\* to there is returned oldest first.
load_recent_messages_for_conversation(posted) ==
    LET newest_first == SkipOwn(Take(Reverse(posted), HistoryLimit))
    IN {Reverse(Take(newest_first, k)) : k \in 0..Len(newest_first)}

\* the objects the running coroutines hold in their local `conversation`
Held(hs) ==
    {TheValue(hs[h].conversation) :
        h \in {x \in Handlers : hs[x].conversation # None}}

Init ==
    /\ now = 0
    /\ timeout = MaxTimeout
    /\ followup_window = MaxWindow
    /\ conversations = <<>>
    /\ heap = <<>>
    /\ ret = NoCall
    /\ calls = 0
    /\ decided = NoDecision
    /\ handlers = [h \in Handlers |-> Idle]
    /\ channel_history = [c \in Channels |-> <<>>]
    /\ arrivals = 0
    /\ chunker = NoChunking

\* on_message without the test for the assistant's own messages
on_message_without_own_filter(message, convs, hp, tmo, t, window) ==
    IF ~IsTextChannel(message.channel_id)
    THEN [conversations |-> convs, heap |-> hp, handler |-> Idle]
    ELSE LET found == get(convs, hp, tmo, t, message.channel_id) IN
         IF found.value # None
         THEN LET recorded == record_message(found.conversations, hp, t,
                                             message.channel_id, ToRecord(message))
                  conversation == recorded.heap[TheValue(found.value)]
                  decision == should_respond(message, conversation, BotUserId, t, window)
              IN [conversations |-> recorded.conversations, heap |-> recorded.heap,
                  handler |->
                      IF decision[1]
                      THEN [Idle EXCEPT !.pc = "gen", !.message = Some(message),
                                        !.conversation = found.value,
                                        !.reason = decision[2]]
                      ELSE Idle]
         ELSE LET decision == should_start_conversation(message, BotUserId) IN
              [conversations |-> found.conversations, heap |-> hp,
               handler |->
                   IF decision[1]
                   THEN [Idle EXCEPT !.pc = "backfill", !.message = Some(message),
                                     !.reason = decision[2]]
                   ELSE Idle]

\* on_message up to its first await: the filters, get, and then either
\* record_message and should_respond or should_start_conversation.  The
\* coroutine is left waiting for run_agent ("gen") or for the history backfill
\* ("backfill"), or it has returned (Idle).
on_message(message, convs, hp, tmo, t, window) ==
    IF message.author_id = BotUserId
    THEN [conversations |-> convs, heap |-> hp, handler |-> Idle]
    ELSE IF ~IsTextChannel(message.channel_id)
    THEN [conversations |-> convs, heap |-> hp, handler |-> Idle]
    ELSE LET found == get(convs, hp, tmo, t, message.channel_id) IN
         IF found.value # None
         THEN LET recorded == record_message(found.conversations, hp, t,
                                             message.channel_id, ToRecord(message))
                  conversation == recorded.heap[TheValue(found.value)]
                  decision == should_respond(message, conversation, BotUserId, t, window)
              IN [conversations |-> recorded.conversations, heap |-> recorded.heap,
                  handler |->
                      IF decision[1]
                      THEN [Idle EXCEPT !.pc = "gen", !.message = Some(message),
                                        !.conversation = found.value,
                                        !.reason = decision[2]]
                      ELSE Idle]
         ELSE LET decision == should_start_conversation(message, BotUserId) IN
              [conversations |-> found.conversations, heap |-> hp,
               handler |->
                   IF decision[1]
                   THEN [Idle EXCEPT !.pc = "backfill", !.message = Some(message),
                                     !.reason = decision[2]]
                   ELSE Idle]

\* a message is posted and on_message runs for it up to its first await
OnMessage(h, message) ==
    LET r == on_message(message, conversations, heap, timeout, now, followup_window)
        hs == [handlers EXCEPT ![h] = r.handler]
    IN /\ handlers[h].pc = "idle"
       /\ h = CHOOSE x \in {y \in Handlers : handlers[y].pc = "idle"} : TRUE
       /\ arrivals < MaxArrivals
       /\ arrivals' = arrivals + 1
       /\ channel_history' =
            IF message.channel_id \in DOMAIN channel_history
            THEN [channel_history EXCEPT ![message.channel_id] = Append(@, message)]
            ELSE channel_history
       /\ handlers' = hs
       /\ conversations' = r.conversations
       /\ heap' = Collect(r.heap, r.conversations, Held(hs))
       /\ UNCHANGED <<now, timeout, followup_window, chunker, ret, calls, decided>>

\* the handler giving up when the reading of the history was cut short
Backfill_giving_up(h) ==
    LET message == TheValue(handlers[h].message)
        posted == channel_history[message.channel_id]
        complete == Reverse(SkipOwn(Take(Reverse(posted), HistoryLimit)))
    IN
    /\ handlers[h].pc = "backfill"
    /\ \E recent_messages \in load_recent_messages_for_conversation(posted) :
         IF recent_messages = complete
         THEN LET r == start(conversations, heap, now, message.channel_id,
                             Append(recent_messages, ToRecord(message)))
                  hs == [handlers EXCEPT ![h] =
                           [@ EXCEPT !.pc = "gen", !.conversation = Some(r.value)]]
              IN /\ handlers' = hs
                 /\ conversations' = r.conversations
                 /\ heap' = Collect(r.heap, r.conversations, Held(hs))
         ELSE /\ handlers' = [handlers EXCEPT ![h] = Idle]
              /\ UNCHANGED <<conversations, heap>>
    /\ UNCHANGED <<now, timeout, followup_window, chunker, ret, calls, decided,
                   channel_history, arrivals>>

\* the history backfill returns; the triggering message is added and the
\* conversation is started
Backfill(h) ==
    LET message == TheValue(handlers[h].message) IN
    /\ handlers[h].pc = "backfill"
    /\ \E recent_messages \in
            load_recent_messages_for_conversation(channel_history[message.channel_id]) :
         LET r == start(conversations, heap, now, message.channel_id,
                        Append(recent_messages, ToRecord(message)))
             hs == [handlers EXCEPT ![h] =
                      [@ EXCEPT !.pc = "gen", !.conversation = Some(r.value)]]
         IN /\ handlers' = hs
            /\ conversations' = r.conversations
            /\ heap' = Collect(r.heap, r.conversations, Held(hs))
    /\ UNCHANGED <<now, timeout, followup_window, chunker, ret, calls, decided,
                   channel_history, arrivals>>

\* run_agent returns a reply and its new turns, or raises (ValueError or any
\* other exception: the two except clauses differ in the text they report)
Generate(h) ==
    /\ handlers[h].pc = "gen"
    /\ \/ \E response \in Responses :
            handlers' = [handlers EXCEPT ![h] =
                [@ EXCEPT !.pc = "send",
                          !.chunks = chunk_message(response, MaxResponseLength),
                          !.new_messages = <<TheValue(handlers[h].message).id>>]]
       \/ handlers' = [handlers EXCEPT ![h] = [@ EXCEPT !.pc = "err"]]
    /\ UNCHANGED <<now, timeout, followup_window, chunker, conversations, heap, ret, calls,
                   decided, channel_history, arrivals>>

\* the reply recorded as soon as its first chunk is sent
Send_recording_early(h) ==
    LET me == handlers[h]
        channel_id == TheValue(me.message).channel_id
        updated_history ==
            heap[TheValue(me.conversation)].llm_history \o me.new_messages
        r == record_bot_response(conversations, heap, now, channel_id,
                                 updated_history)
    IN
    /\ me.pc = "send"
    /\ \/ /\ Len(me.chunks) > 1
          /\ LET hs == [handlers EXCEPT ![h] =
                          [@ EXCEPT !.chunks = Tail(@), !.sent = @ + 1,
                                    !.delivered = Append(@, Head(me.chunks))]]
             IN /\ handlers' = hs
                /\ conversations' = r.conversations
                /\ heap' = Collect(r.heap, r.conversations, Held(hs))
       \/ /\ Len(me.chunks) = 1
          /\ LET hs == [handlers EXCEPT ![h] = Idle]
             IN /\ handlers' = hs
                /\ conversations' = r.conversations
                /\ heap' = Collect(r.heap, r.conversations, Held(hs))
       \/ /\ handlers' = [handlers EXCEPT ![h] = [@ EXCEPT !.pc = "err"]]
          /\ UNCHANGED <<conversations, heap>>
    /\ UNCHANGED <<now, timeout, followup_window, chunker, ret, calls, decided,
                   channel_history, arrivals>>

\* send_chunked_response going through the chunks from the last to the first
Send_last_first(h) ==
    LET me == handlers[h]
        channel_id == TheValue(me.message).channel_id
    IN
    /\ me.pc = "send"
    /\ \/ /\ Len(me.chunks) > 1
          /\ handlers' = [handlers EXCEPT ![h] =
                [@ EXCEPT !.chunks = SubSeq(@, 1, Len(@) - 1), !.sent = @ + 1,
                          !.delivered = Append(@, me.chunks[Len(me.chunks)])]]
          /\ UNCHANGED <<conversations, heap>>
       \/ /\ Len(me.chunks) = 1
          /\ LET updated_history ==
                    heap[TheValue(me.conversation)].llm_history \o me.new_messages
                 r == record_bot_response(conversations, heap, now, channel_id,
                                          updated_history)
                 hs == [handlers EXCEPT ![h] = Idle]
             IN /\ handlers' = hs
                /\ conversations' = r.conversations
                /\ heap' = Collect(r.heap, r.conversations, Held(hs))
       \/ /\ handlers' = [handlers EXCEPT ![h] = [@ EXCEPT !.pc = "err"]]
          /\ UNCHANGED <<conversations, heap>>
    /\ UNCHANGED <<now, timeout, followup_window, chunker, ret, calls, decided,
                   channel_history, arrivals>>

\* send_chunked_response sends the next chunk; after the last one the reply is
\* recorded with the conversation's history followed by the new turns
Send(h) ==
    LET me == handlers[h]
        channel_id == TheValue(me.message).channel_id
    IN
    /\ me.pc = "send"
    /\ \/ /\ Len(me.chunks) > 1
          /\ handlers' = [handlers EXCEPT ![h] =
                [@ EXCEPT !.chunks = Tail(@), !.sent = @ + 1,
                          !.delivered = Append(@, Head(me.chunks))]]
          /\ UNCHANGED <<conversations, heap>>
       \/ /\ Len(me.chunks) = 1
          /\ LET updated_history ==
                    heap[TheValue(me.conversation)].llm_history \o me.new_messages
                 r == record_bot_response(conversations, heap, now, channel_id,
                                          updated_history)
                 hs == [handlers EXCEPT ![h] = Idle]
             IN /\ handlers' = hs
                /\ conversations' = r.conversations
                /\ heap' = Collect(r.heap, r.conversations, Held(hs))
       \/ /\ handlers' = [handlers EXCEPT ![h] = [@ EXCEPT !.pc = "err"]]
          /\ UNCHANGED <<conversations, heap>>
    /\ UNCHANGED <<now, timeout, followup_window, chunker, ret, calls, decided,
                   channel_history, arrivals>>

\* the except clause going back to run_agent instead of reporting
ReportError_retrying(h) ==
    /\ handlers[h].pc = "err"
    /\ handlers' = [handlers EXCEPT ![h] = [@ EXCEPT !.pc = "gen"]]
    /\ UNCHANGED <<now, timeout, followup_window, chunker, conversations, heap, ret,
                   calls, decided, channel_history, arrivals>>

\* the except clauses call send_error_message, which sends "Sorry, ..." to the
\* channel of the message: the send is delivered, or it raises and the
\* exception leaves on_message
ReportError(h) ==
    /\ handlers[h].pc = "err"
    /\ \E hs \in {[handlers EXCEPT ![h] = [@ EXCEPT !.pc = "reported", !.sent = @ + 1]],
                  [handlers EXCEPT ![h] = Idle]} :
          /\ handlers' = hs
          /\ heap' = Collect(heap, conversations, Held(hs))
    /\ UNCHANGED <<now, timeout, followup_window, chunker, conversations, ret, calls,
                   decided, channel_history, arrivals>>

\* the rest of send_error_message (the send to the debug channel, when one is
\* configured) and of the except clause; then on_message returns
LogError(h) ==
    LET hs == [handlers EXCEPT ![h] = Idle] IN
    /\ handlers[h].pc = "reported"
    /\ handlers' = hs
    /\ heap' = Collect(heap, conversations, Held(hs))
    /\ UNCHANGED <<now, timeout, followup_window, chunker, conversations, ret, calls,
                   decided, channel_history, arrivals>>

Next ==
    \/ Tick
    \/ \E h \in Handlers, m \in Inbound(arrivals + 1) : OnMessage(h, m)
    \/ \E h \in Handlers : Backfill(h)
    \/ \E h \in Handlers : Generate(h)
    \/ \E h \in Handlers : Send(h)
    \/ \E h \in Handlers : ReportError(h)
    \/ \E h \in Handlers : LogError(h)

Spec == Init /\ [][Next]_vars

\* ----------------------------------------------------- claims on the store

\* the step is a call of store operation op on channel c
CallOf(op, c) == calls' = calls + 1 /\ ret'.op = op /\ ret'.channel_id = c

\* the seconds since the last activity of the entry of channel c
Elapsed(c) == now - heap[conversations[c]].last_activity

\* C1: get(c) returns the stored conversation if and only if the time elapsed
\* since its last_activity is at most the timeout (elapsed = timeout is still
\* alive); beyond the timeout it returns None and deletes the entry, and a
\* channel without an entry gets None from get and gets an entry again only
\* from start.
C1_GetLiveIffWithinTimeout ==
    [][\A c \in Channels :
        /\ (CallOf("get", c) /\ c \in DOMAIN conversations) =>
              /\ (ret'.value = Some(conversations[c])) <=> (Elapsed(c) <= timeout)
              /\ (Elapsed(c) > timeout) =>
                    (ret'.value = None /\ c \notin DOMAIN conversations')
        /\ (CallOf("get", c) /\ c \notin DOMAIN conversations) =>
              (ret'.value = None /\ c \notin DOMAIN conversations')
        /\ (c \notin DOMAIN conversations /\ c \in DOMAIN conversations') =>
              CallOf("start", c)
      ]_vars

\* C1 witness: a get found an entry, answered None and removed it.
C1_Witness ==
    /\ ret.op = "get" /\ ret.found /\ ret.value = None
    /\ ret.channel_id \notin DOMAIN conversations
    /\ now > timeout

\* C2: once now - last_activity > timeout holds for the entry of a channel, no
\* store operation returns that entry and no record_message or
\* record_bot_response changes any of its fields.
C2_DeadNeverReturnedOrMutated ==
    [][\A c \in DOMAIN conversations :
        LET id == conversations[c] IN
        (Elapsed(c) > timeout) =>
            /\ (calls' = calls + 1) => ret'.value # Some(id)
            /\ (id \in DOMAIN heap') => heap'[id] = heap[id]
      ]_vars

\* C9: record_message on a channel with an entry makes messages one longer,
\* puts the new message last and keeps the earlier messages as they were.
C9_RecordMessageAppends ==
    [][\A c \in Channels, m \in StoreMessages :
        (RecordMessage(c, m) /\ c \in DOMAIN conversations) =>
            LET old == heap[conversations[c]].messages
                new == heap'[conversations'[c]].messages
            IN /\ c \in DOMAIN conversations'
               /\ Len(new) = Len(old) + 1
               /\ new[Len(new)] = m
               /\ \A i \in 1..Len(old) : new[i] = old[i]
      ]_vars

\* C9 witness: record_message appended a message by another author than the
\* one of the message already stored.
C9_Witness ==
    /\ ret.op = "record_message" /\ ret.found
    /\ ret.channel_id \in DOMAIN conversations
    /\ LET msgs == heap[conversations[ret.channel_id]].messages IN
       Len(msgs) >= 2 /\ msgs[Len(msgs)] # msgs[1]

\* C10: record_message and record_bot_response on a channel without an entry
\* change nothing in the store: no entry appears for the channel and the
\* entries of the other channels stay as they are.
C10_RecordOnMissingChannelIsNoOp ==
    [][\A c \in Channels :
        ((CallOf("record_message", c) \/ CallOf("record_bot_response", c))
            /\ c \notin DOMAIN conversations) =>
            /\ conversations' = conversations
            /\ heap' = heap
            /\ get(conversations', heap', timeout, now', c).value = None
      ]_vars

\* C10 witness: record_bot_response was called for a channel without an entry
\* while another channel had one, and the channel still has none.
C10_Witness ==
    /\ ret.op = "record_bot_response" /\ ~ret.found
    /\ ret.channel_id \notin DOMAIN conversations
    /\ conversations # <<>>

\* C11: record_message on a conversation that has not timed out sets its
\* last_activity to the current time and keeps the entry, so such a
\* conversation stays live however long ago it was started; and a get that
\* follows a record_message on the channel, no more than timeout seconds
\* later, returns that conversation.
C11_RecordMessageRestartsTimeout ==
    [][\A c \in Channels :
        /\ (CallOf("record_message", c) /\ c \in DOMAIN conversations
                /\ Elapsed(c) <= timeout) =>
              /\ c \in DOMAIN conversations' /\ conversations'[c] = conversations[c]
              /\ heap'[conversations[c]].last_activity = now
              /\ get(conversations', heap', timeout, now', c).value = Some(conversations[c])
        /\ (CallOf("get", c) /\ ret.op = "record_message" /\ ret.channel_id = c
                /\ ret.found /\ Elapsed(c) <= timeout) =>
              /\ ret'.value = Some(conversations[c])
              /\ conversations' = conversations /\ heap' = heap
      ]_vars

\* C11 witness: a get returned a conversation that was started more than
\* timeout seconds ago and whose last message was recorded since.
C11_Witness ==
    /\ ret.op = "get" /\ ret.value # None
    /\ LET conv == heap[TheValue(ret.value)] IN
       /\ now - conv.started_at > timeout
       /\ conv.last_activity > conv.started_at
       /\ now - conv.last_activity <= timeout

\* the author identifiers occurring in a list of messages
Authors(msgs) == {msgs[i].author_id : i \in 1..Len(msgs)}

\* C12: after start(c, initial_messages) the entry of c is a new object in
\* the fresh state, whatever entry c had before: started_at and last_activity
\* are the current time, messages is initial_messages in the same order, the
\* prior-turn history is empty and last_bot_response is None; the
\* participants are those of initial_messages only.
C12_StartGivesFreshState ==
    [][\A c \in Channels :
        CallOf("start", c) =>
            LET seed == TheValue(ret'.arg) IN
            /\ c \in DOMAIN conversations'
            /\ c \in DOMAIN conversations => conversations'[c] # conversations[c]
            /\ ret'.value = Some(conversations'[c])
            /\ LET conv == heap'[conversations'[c]] IN
               /\ conv.channel_id = c
               /\ conv.started_at = now /\ conv.last_activity = now
               /\ conv.messages = seed
               /\ conv.llm_history = <<>>
               /\ conv.last_bot_response = None
               /\ conv.participants \subseteq Authors(seed)
      ]_vars

\* C12 witness: start with an empty list replaced an entry that two earlier
\* calls had made and used; the new entry is stamped with the current time and
\* holds no message, no prior turn and no reply time.
C12_Witness ==
    /\ ret.op = "start" /\ ret.arg = Some(<<>>) /\ ret.found
    /\ calls = MaxCalls /\ now > 0
    /\ LET conv == heap[TheValue(ret.value)] IN
       /\ conv.started_at = now
       /\ conv.messages = <<>>
       /\ conv.llm_history = <<>> /\ conv.last_bot_response = None

\* C13: start(c, initial_messages) leaves a conversation whose participants
\* are exactly the author identifiers occurring in initial_messages (each
\* once, none for the empty list), and a get(c) made right after it, at the
\* same time, returns that conversation with these participants.
C13_StartSeedsParticipants ==
    [][\A c \in Channels :
        /\ CallOf("start", c) =>
              LET seed == TheValue(ret'.arg) IN
                 /\ heap'[conversations'[c]].participants = Authors(seed)
                 /\ get(conversations', heap', timeout, now', c).value
                        = Some(conversations'[c])
        /\ (CallOf("get", c) /\ ret.op = "start" /\ ret.channel_id = c
                /\ now = heap[conversations[c]].started_at) =>
              /\ ret'.value = ret.value
              /\ heap'[TheValue(ret'.value)].participants
                    = Authors(TheValue(ret.arg))
      ]_vars

\* C13 witness: start with messages of two authors was followed at once by a
\* get, which returned the conversation with both as participants.
C13_Witness ==
    /\ calls = 2 /\ ret.op = "get" /\ ret.value # None
    /\ LET conv == heap[TheValue(ret.value)] IN
       /\ conv.started_at = now
       /\ Len(conv.messages) = 2
       /\ conv.participants = {"u1", "u2"}

\* C14: record_bot_response(c, llm_history) on a channel with an entry keeps
\* the entry, makes its prior-turn history exactly the list handed in
\* (whatever was stored before) and sets last_bot_response to the current
\* time; a get that returns the conversation shows that same history.
C14_RecordBotResponseReplacesHistory ==
    [][\A c \in Channels, h \in Histories :
        (RecordBotResponse(c, h) /\ c \in DOMAIN conversations) =>
            /\ c \in DOMAIN conversations' /\ conversations'[c] = conversations[c]
            /\ LET conv == heap'[conversations[c]]
                   got == get(conversations', heap', timeout, now', c).value
               IN /\ conv.llm_history = h
                  /\ conv.last_bot_response = Some(now)
                  /\ got # None => heap'[TheValue(got)].llm_history = h
      ]_vars

\* C14 witness: a record_bot_response, the last of the calls, found an entry
\* and left it with the one turn handed in, stamped with the current time,
\* later than the start of the conversation.
C14_Witness ==
    /\ ret.op = "record_bot_response" /\ ret.found /\ calls = MaxCalls
    /\ LET conv == heap[conversations[ret.channel_id]] IN
       /\ conv.llm_history = <<"turn1">>
       /\ conv.last_bot_response = Some(now)
       /\ conv.started_at < now

\* C15: end(c) leaves c without entry, so a get(c) made next returns None;
\* end on a channel without entry changes nothing in the store, so a second
\* end, right after a first or at any later time, leaves the store as the
\* first one left it.
C15_EndRemovesAndIsIdempotent ==
    [][\A c \in Channels :
        End(c) =>
            /\ c \notin DOMAIN conversations'
            /\ get(conversations', heap', timeout, now', c).value = None
            /\ end(conversations', c) = conversations'
            /\ c \notin DOMAIN conversations =>
                  (conversations' = conversations /\ heap' = heap)
            /\ (ret.op = "end" /\ ret.channel_id = c) =>
                  (conversations' = conversations /\ heap' = heap)
      ]_vars

\* C15 witness: end was called for a channel that had no entry (any more)
\* while the other channel had one, and that one is still there.
C15_Witness ==
    /\ ret.op = "end" /\ ~ret.found
    /\ ret.channel_id \notin DOMAIN conversations
    /\ conversations # <<>>
    /\ calls = MaxCalls

\* C16: as long as a channel keeps the same conversation object, from its
\* start to its removal or replacement, the last_activity of that object
\* never decreases from one state to the next, and it is never later than
\* the clock.
C16_LastActivityNeverDecreases ==
    [][\A c \in DOMAIN conversations :
        LET id == conversations[c] IN
        /\ heap[id].last_activity <= now
        /\ (c \in DOMAIN conversations' /\ conversations'[c] = id) =>
              heap'[id].last_activity >= heap[id].last_activity
      ]_vars

\* C16 witness: a conversation holds two messages, the last of them recorded
\* at the current time, after its start.
C16_Witness ==
    /\ ret.op = "record_message" /\ ret.found
    /\ ret.channel_id \in DOMAIN conversations
    /\ LET conv == heap[conversations[ret.channel_id]] IN
       /\ Len(conv.messages) = 2
       /\ conv.started_at < conv.last_activity
       /\ conv.last_activity = now

\* C17: in every state each conversation of the store has among its
\* participants the author of every message in its messages.
C17_ParticipantsCoverAuthors ==
    \A c \in DOMAIN conversations :
        Authors(heap[conversations[c]].messages)
            \subseteq heap[conversations[c]].participants

\* C17 witness: a conversation started with the message of one author has
\* recorded the message of another one, and both are participants.
C17_Witness ==
    /\ calls = 2 /\ ret.op = "record_message" /\ ret.found
    /\ ret.channel_id \in DOMAIN conversations
    /\ LET conv == heap[conversations[ret.channel_id]] IN
       /\ Len(conv.messages) = 2
       /\ conv.messages[1].author_id # conv.messages[2].author_id
       /\ conv.participants = {"u1", "u2"}

\* C18: a call of get, start, record_message, record_bot_response or end on
\* channel c leaves every other channel as it was: it has an entry after the
\* call if and only if it had one before, and then the same object with the
\* same fields.
C18_OtherChannelsUntouched ==
    [][\A c \in Channels :
        (calls' = calls + 1 /\ ret'.channel_id = c) =>
            \A d \in Channels \ {c} :
                /\ (d \in DOMAIN conversations') <=> (d \in DOMAIN conversations)
                /\ d \in DOMAIN conversations =>
                      /\ conversations'[d] = conversations[d]
                      /\ heap'[conversations[d]] = heap[conversations[d]]
      ]_vars

\* C18 witness: both channels have a conversation; the last call recorded a
\* message on one of them at the current time, and the other one is still as
\* its start left it, at an earlier time and with no message.
C18_Witness ==
    /\ DOMAIN conversations = Channels
    /\ ret.op = "record_message" /\ ret.channel_id = "c1"
    /\ heap[conversations["c1"]].last_activity = now
    /\ LET other == heap[conversations["c2"]] IN
       /\ other.last_activity < now
       /\ other.started_at = other.last_activity
       /\ other.messages = <<>>

\* C19: get(c) on a channel without entry, or with an entry that has not
\* timed out, changes nothing in the store; in particular last_activity
\* stays, so the conversation it returns still expires timeout seconds after
\* its last activity.
C19_GetHasNoSideEffectUnlessExpired ==
    [][\A c \in Channels :
        (CallOf("get", c)
            /\ (c \in DOMAIN conversations => Elapsed(c) <= timeout)) =>
            /\ conversations' = conversations
            /\ heap' = heap
            /\ c \in DOMAIN conversations =>
                  LET last == heap[conversations[c]].last_activity IN
                  /\ heap'[conversations[c]].last_activity = last
                  /\ get(conversations', heap', timeout, last + timeout + 1, c).value
                        = None
      ]_vars

\* C19 witness: a get returned a conversation some time after its last
\* activity, and the last activity is still the earlier time.
C19_Witness ==
    /\ ret.op = "get" /\ ret.value # None
    /\ LET conv == heap[TheValue(ret.value)] IN
       /\ conv.last_activity < now
       /\ now - conv.last_activity <= timeout

\* C35: record_bot_response(c, llm_history) leaves the store's entries as they
\* are; of the conversation of c it changes nothing but llm_history and
\* last_bot_response: last_activity, started_at, messages and participants
\* stay, so the time counted towards the timeout stays as well; on a channel
\* without entry it changes nothing at all.
C35_RecordBotResponseFrame ==
    [][\A c \in Channels :
          CallOf("record_bot_response", c) =>
              /\ conversations' = conversations
              /\ DOMAIN heap' = DOMAIN heap
              /\ \A i \in DOMAIN heap :
                    /\ heap'[i].channel_id = heap[i].channel_id
                    /\ heap'[i].started_at = heap[i].started_at
                    /\ heap'[i].last_activity = heap[i].last_activity
                    /\ heap'[i].messages = heap[i].messages
                    /\ heap'[i].participants = heap[i].participants
                    /\ (c \notin DOMAIN conversations \/ conversations[c] # i) =>
                          heap'[i] = heap[i]
      ]_vars

\* a record_bot_response found the entry of its channel and left it with a
\* last_bot_response later than its last_activity
C35_Witness ==
    /\ ret.op = "record_bot_response" /\ ret.found
    /\ ret.channel_id \in DOMAIN conversations
    /\ LET conv == heap[conversations[ret.channel_id]] IN
       /\ conv.last_bot_response = Some(now)
       /\ conv.last_activity < now
       /\ conv.messages # <<>>

\* --------------------------------------------------- claims on the decider

\* the message mentions the assistant
Mentioned(message) == BotUserId \in message.mentions

\* the message is a reply whose resolved target is a message of the assistant
RepliesToBot(message) ==
    message.reference = Some(MessageReference(Some(ResolvedMessage(BotUserId))))

\* C6: for a message without explicit trigger, should_respond answers
\* (TRUE, "recent_followup") if and only if last_bot_response is set, less
\* than followup_window seconds have passed since it and the message looks
\* like a followup; in every other such case it answers (FALSE, "no_trigger").
C6_RecentFollowupIffWithinWindow ==
    (decided.op = "should_respond"
        /\ ~Mentioned(decided.message) /\ ~RepliesToBot(decided.message)) =>
        LET spoke == decided.conversation.last_bot_response
            recent == /\ spoke # None
                      /\ decided.at - TheValue(spoke) < followup_window
                      /\ _looks_like_followup(decided.message)
        IN /\ recent => decided.result = <<TRUE, "recent_followup">>
           /\ ~recent => decided.result = <<FALSE, "no_trigger">>

\* C6 witness: a followup-shaped message exactly followup_window seconds after
\* the assistant spoke was refused.
C6_Witness ==
    /\ decided.op = "should_respond"
    /\ ~Mentioned(decided.message) /\ ~RepliesToBot(decided.message)
    /\ decided.message.content = Why
    /\ decided.conversation.last_bot_response = Some(decided.at - followup_window)
    /\ decided.result = <<FALSE, "no_trigger">>

\* C7: should_respond answers (TRUE, "explicit_trigger") whenever the message
\* mentions the assistant or replies to a message of the assistant, whatever
\* last_bot_response and the content are.
C7_ExplicitTriggerWins ==
    (decided.op = "should_respond"
        /\ (Mentioned(decided.message) \/ RepliesToBot(decided.message))) =>
        decided.result = <<TRUE, "explicit_trigger">>

\* C7 witness: a reply to the assistant that also qualifies as a recent
\* followup was answered as an explicit trigger.
C7_Witness ==
    /\ decided.op = "should_respond"
    /\ ~Mentioned(decided.message) /\ RepliesToBot(decided.message)
    /\ decided.message.content = Why
    /\ decided.conversation.last_bot_response = Some(decided.at)
    /\ decided.result = <<TRUE, "explicit_trigger">>

\* C8: should_start_conversation answers (TRUE, "explicit_mention") whenever
\* the assistant is mentioned, also in a reply to the assistant; otherwise
\* (TRUE, "reply_to_bot") when the resolved reply target is a message of the
\* assistant; otherwise (FALSE, "no_trigger").
C8_StartReasons ==
    (decided.op = "should_start_conversation") =>
        decided.result =
            IF Mentioned(decided.message) THEN <<TRUE, "explicit_mention">>
            ELSE IF RepliesToBot(decided.message) THEN <<TRUE, "reply_to_bot">>
            ELSE <<FALSE, "no_trigger">>

\* C8 witness: a message that mentions the assistant and replies to it was
\* reported as an explicit mention.
C8_Witness ==
    /\ decided.op = "should_start_conversation"
    /\ Mentioned(decided.message) /\ RepliesToBot(decided.message)
    /\ decided.result = <<TRUE, "explicit_mention">>

\* the conversations and times a should_respond call may be given
DeciderConversations ==
    {ConversationSpokenAt(spoke) : spoke \in {None} \cup {Some(t) : t \in 0..MaxTime}}

\* C32: on one message, should_start_conversation is true exactly when
\* should_respond answers (true, "explicit_trigger"), whatever the conversation
\* and the time; a message that should_respond accepts as a recent followup
\* only is refused by should_start_conversation.
C32_StartIffExplicitTrigger ==
    /\ decided.op = "should_respond" =>
          /\ (decided.result = <<TRUE, "explicit_trigger">>) <=>
                should_start_conversation(decided.message, BotUserId)[1]
          /\ decided.result = <<TRUE, "recent_followup">> =>
                should_start_conversation(decided.message, BotUserId)
                    = <<FALSE, "no_trigger">>
    /\ decided.op = "should_start_conversation" =>
          \A conversation \in DeciderConversations, t \in 0..MaxTime :
              decided.result[1] <=>
                  (should_respond(decided.message, conversation, BotUserId,
                                  t, followup_window)
                      = <<TRUE, "explicit_trigger">>)

\* should_respond has accepted, as a recent followup, a message that neither
\* mentions the assistant nor replies to it
C32_Witness ==
    /\ decided.op = "should_respond"
    /\ decided.result = <<TRUE, "recent_followup">>
    /\ ~_is_explicit_trigger(decided.message, BotUserId)
    /\ _looks_like_followup(decided.message)

\* the words of a text, counted by their last characters
Words(text) ==
    Cardinality({i \in 1..Len(text) :
        ~IsSpace(text[i]) /\ (i = Len(text) \/ IsSpace(text[i + 1]))})

HasQuestionMark(text) == \E i \in 1..Len(text) : text[i] = "?"

\* the continuation words, each with the space that ends it
ContinuationWords ==
    {<<"a", "n", "d", " ">>, <<"a", "l", "s", "o", " ">>,
     <<"w", "h", "a", "t", " ", "a", "b", "o", "u", "t", " ">>,
     <<"h", "o", "w", " ", "a", "b", "o", "u", "t", " ">>,
     <<"w", "h", "y", " ">>, <<"b", "u", "t", " ">>}

BeginsWithContinuation(text) ==
    \E w \in ContinuationWords :
        Len(text) >= Len(w) /\ \A i \in 1..Len(w) : text[i] = w[i]

\* C33: _looks_like_followup is true exactly when the lower-cased content has
\* fewer than 10 words and a question mark, or begins with one of the six
\* continuation words; a content of 10 or more words that begins with none of
\* them is refused, question mark or not.
C33_LooksLikeFollowup ==
    decided.op = "_looks_like_followup" =>
        LET content == Lower(decided.message.content) IN
        /\ decided.result <=>
              \/ Words(content) < 10 /\ HasQuestionMark(content)
              \/ BeginsWithContinuation(content)
        /\ (Words(content) >= 10 /\ ~BeginsWithContinuation(content)) =>
              ~decided.result

\* a question of ten words that begins with no continuation word was refused
C33_Witness ==
    /\ decided.op = "_looks_like_followup"
    /\ Words(decided.message.content) = 10
    /\ HasQuestionMark(decided.message.content)
    /\ ~BeginsWithContinuation(Lower(decided.message.content))
    /\ decided.result = FALSE

\* ------------------------------------------------ claims on bot.on_message

\* the channel has a conversation that has not timed out
Live(c) == c \in DOMAIN conversations /\ Elapsed(c) <= timeout

\* the message mentions the assistant or replies to one of its messages
Triggers(m) == Mentioned(m) \/ RepliesToBot(m)

\* the record of message m is in the messages of some conversation object
RecordedIn(hp, m) ==
    \E i \in DOMAIN hp : \E k \in 1..Len(hp[i].messages) : hp[i].messages[k] = ToRecord(m)

\* the step starts a conversation for channel c: a new object becomes its entry
Starts(c) ==
    /\ c \in DOMAIN conversations'
    /\ c \in DOMAIN conversations => conversations'[c] # conversations[c]

\* C3: when a message of a user arrives in a text channel without live
\* conversation, the handler goes on to start one (it awaits the history
\* backfill and then calls start with the message last) if and only if the
\* message mentions the assistant or replies to it; for any other message the
\* handler returns at once: the channel is left without conversation, the
\* message is recorded nowhere and nothing is generated or sent.  A
\* conversation is only ever started by a handler whose message is such a
\* trigger.
C3_StartIffTrigger ==
    [][/\ \A h \in Handlers, m \in Inbound(arrivals + 1) :
            (OnMessage(h, m) /\ m.author_id # BotUserId
                /\ IsTextChannel(m.channel_id) /\ ~Live(m.channel_id)) =>
                /\ m.channel_id \notin DOMAIN conversations'
                /\ ~RecordedIn(heap', m)
                /\ Triggers(m) =>
                      (handlers'[h].pc = "backfill" /\ handlers'[h].message = Some(m))
                /\ ~Triggers(m) => handlers'[h] = Idle
       /\ \A h \in Handlers :
            (handlers[h].pc = "backfill" /\ handlers'[h] # handlers[h]) =>
                LET m == TheValue(handlers[h].message)
                    msgs == heap'[conversations'[m.channel_id]].messages
                IN /\ Starts(m.channel_id)
                   /\ msgs[Len(msgs)] = ToRecord(m)
                   /\ handlers'[h].pc = "gen"
       /\ \A c \in Channels :
            Starts(c) =>
                \E h \in Handlers :
                    /\ handlers[h].pc = "backfill"
                    /\ TheValue(handlers[h].message).channel_id = c
                    /\ Triggers(TheValue(handlers[h].message))
      ]_vars

\* C3 witness: the first message posted is a followup-shaped question without
\* mention or reply; no conversation exists and no handler is at work.
C3_Witness ==
    /\ arrivals = 1
    /\ channel_history["c1"] = <<Message(1, "u1", "c1", Why, {}, None, 1)>>
    /\ conversations = <<>>
    /\ \A h \in Handlers : handlers[h] = Idle

\* whether should_respond accepts message m for the conversation of channel c
Responds(m, c) ==
    should_respond(m, heap[conversations[c]], BotUserId, now, followup_window)[1]

\* C4: a message of a user that arrives while the conversation of its channel
\* is live is appended to it and sets last_activity to the current time,
\* whatever should_respond says; the handler goes on to call run_agent if and
\* only if should_respond is true, and the conversation stays in the store.
C4_LiveMessageRecorded ==
    [][\A h \in Handlers, m \in Inbound(arrivals + 1) :
        (OnMessage(h, m) /\ m.author_id # BotUserId /\ Live(m.channel_id)) =>
            LET c == m.channel_id
                id == conversations[c]
            IN /\ c \in DOMAIN conversations' /\ conversations'[c] = id
               /\ heap'[id].messages = Append(heap[id].messages, ToRecord(m))
               /\ heap'[id].last_activity = now
               /\ Responds(m, c) =>
                     (handlers'[h].pc = "gen" /\ handlers'[h].message = Some(m)
                        /\ handlers'[h].conversation = Some(id))
               /\ ~Responds(m, c) => handlers'[h] = Idle
      ]_vars

\* C4 witness: plain talk was posted after the conversation had started; it is
\* the last recorded message, last_activity was bumped, the conversation is
\* still there and no handler is at work.
C4_Witness ==
    /\ arrivals = 2
    /\ "c1" \in DOMAIN conversations
    /\ LET conv == heap[conversations["c1"]] IN
       /\ conv.messages[Len(conv.messages)] = MessageRecord("u2", Ok, 2, FALSE)
       /\ conv.last_activity = now
       /\ conv.started_at < conv.last_activity
    /\ \A h \in Handlers : handlers[h] = Idle

\* C5: a message of a user that arrives more than timeout seconds after the
\* last activity of its channel's conversation finds the channel idle: the old
\* entry is removed and not appended to, and the handler goes on (to the
\* backfill and a fresh conversation) only if the message is itself an
\* explicit trigger; otherwise it returns without generating anything.
C5_ExpiredMeansIdle ==
    [][/\ \A h \in Handlers, m \in Inbound(arrivals + 1) :
            (OnMessage(h, m) /\ m.author_id # BotUserId
                /\ m.channel_id \in DOMAIN conversations
                /\ Elapsed(m.channel_id) > timeout) =>
                LET c == m.channel_id
                    id == conversations[c]
                IN /\ c \notin DOMAIN conversations'
                   /\ id \in DOMAIN heap' => heap'[id] = heap[id]
                   /\ ~RecordedIn(heap', m)
                   /\ Triggers(m) => handlers'[h].pc = "backfill"
                   /\ ~Triggers(m) => handlers'[h] = Idle
       /\ \A h \in Handlers :
            (handlers[h].pc = "backfill" /\ handlers'[h] # handlers[h]) =>
                LET c == TheValue(handlers[h].message).channel_id
                    conv == heap'[conversations'[c]]
                IN /\ Starts(c)
                   /\ conv.started_at = now /\ conv.last_activity = now
                   /\ conv.llm_history = <<>> /\ conv.last_bot_response = None
      ]_vars

\* C5 witness: a conversation was started by a mention and recorded a reply;
\* the next message, a followup-shaped question, came after the timeout: the
\* conversation is gone and no handler is at work.
C5_Witness ==
    /\ arrivals = 2
    /\ Len(channel_history["c1"]) = 2
    /\ Mentioned(channel_history["c1"][1])
    /\ channel_history["c1"][2] = Message(2, "u1", "c1", Why, {}, None, 2)
    /\ conversations = <<>>
    /\ \A h \in Handlers : handlers[h] = Idle

\* handler h delivers the last chunk of its reply in this step and returns
DeliversReply(h) ==
    /\ handlers[h].pc = "send"
    /\ Len(handlers[h].chunks) = 1
    /\ handlers'[h] = Idle

\* C20: a conversation object is created with last_bot_response None, and its
\* last_bot_response changes only in the step in which a handler delivers the
\* last chunk of a generated reply to the object's channel and calls
\* record_bot_response, which sets it to the current time; the arrival of a
\* message (get, record_message), the backfill and start, a generation,
\* failed or not, and a failed send leave it as it is.  So where it is set it
\* is not earlier than the start of the conversation.
C20_ReplyTimeOnlyFromDeliveredReply ==
    [][/\ \A id \in (DOMAIN heap') \ (DOMAIN heap) :
             heap'[id].last_bot_response = None
       /\ \A id \in (DOMAIN heap') \cap (DOMAIN heap) :
             heap'[id].last_bot_response # heap[id].last_bot_response =>
                /\ heap'[id].last_bot_response = Some(now)
                /\ \E h \in Handlers :
                      /\ DeliversReply(h)
                      /\ DictGet(conversations,
                                 TheValue(handlers[h].message).channel_id) = Some(id)
       /\ \A c \in DOMAIN conversations' :
             LET conv == heap'[conversations'[c]] IN
             conv.last_bot_response # None =>
                /\ conv.started_at <= TheValue(conv.last_bot_response)
                /\ TheValue(conv.last_bot_response) <= now'
      ]_vars

\* C20 witness: two messages were handled and are in the conversation of the
\* channel; one reply was delivered in full, just now and after the start of
\* the conversation, and the conversation carries its time and its turn.
C20_Witness ==
    /\ arrivals = 2
    /\ \A h \in Handlers : handlers[h] = Idle
    /\ "c1" \in DOMAIN conversations
    /\ LET conv == heap[conversations["c1"]] IN
       /\ conv.last_bot_response = Some(now)
       /\ Len(conv.llm_history) = 1
       /\ Len(conv.messages) >= 2
       /\ conv.started_at < now

\* the channel of the message handler h is working on
ChannelOf(h) == TheValue(handlers[h].message).channel_id

\* handler h has made its first store access and has not returned yet
InFlight(h) == handlers[h].pc # "idle"

\* C21: while a handler is in flight for a message, between its first store
\* access and its record_bot_response or its abandonment, the entry of its
\* channel is changed by no step but its own: no other inbound message of the
\* channel gets its store accesses in between.
C21_ChannelSerialized ==
    [][\A h \in Handlers :
        (InFlight(h) /\ handlers'[h] = handlers[h]) =>
            LET c == ChannelOf(h) IN
            /\ DictGet(conversations', c) = DictGet(conversations, c)
            /\ c \in DOMAIN conversations =>
                  heap'[conversations[c]] = heap[conversations[c]]
      ]_vars

\* ---------------------------------------------------- claims on chunk_message

\* the call has returned
Returned == chunker.pc = "done"

\* The loop followed round by round returns what chunk_message computes.
ChunkerAgrees ==
    (Returned /\ chunker.max_length >= 1) =>
        chunker.chunks = chunk_message(chunker.text, chunker.max_length)

\* C22: for max_length >= 1 no chunk chunk_message has produced, at any point
\* of the call, is longer than max_length.
C22_ChunksWithinMaxLength ==
    chunker.max_length >= 1 =>
        \A i \in DOMAIN chunker.chunks :
            Len(chunker.chunks[i]) <= chunker.max_length

\* a returned call that cut its text into several chunks, one of them full
C22_Witness ==
    /\ Returned
    /\ chunker.max_length >= 1
    /\ Len(chunker.chunks) >= 2
    /\ \E i \in DOMAIN chunker.chunks :
          Len(chunker.chunks[i]) = chunker.max_length

\* C23: a text no longer than max_length is returned as the only chunk,
\* character for character; nothing is stripped from it.
C23_FittingTextReturnedUnchanged ==
    [][(chunker.pc = "call" /\ Len(chunker.text) <= chunker.max_length) =>
          /\ chunker'.pc = "done"
          /\ chunker'.chunks = <<chunker.text>>
      ]_vars

\* a returned call on a fitting text that starts and ends with whitespace
C23_Witness ==
    /\ Returned
    /\ Len(chunker.text) <= chunker.max_length
    /\ Len(chunker.text) >= 3
    /\ IsSpace(chunker.text[1])
    /\ IsSpace(chunker.text[Len(chunker.text)])
    /\ chunker.chunks = <<chunker.text>>

\* the start positions (counted from 0) of sub in text
Occurrences(text, sub) ==
    {i \in 0..(Len(text) - Len(sub)) : SubSeq(text, i + 1, i + Len(sub)) = sub}

HasBoundary(text, sub) == Occurrences(text, sub) # {}

\* where the stated order of preference puts the cut
PreferredCut(remaining, max_length) ==
    LET prefix == Take(remaining, max_length)
        paragraphs == Occurrences(prefix, <<"\n", "\n">>)
        sentences == Occurrences(prefix, <<".", " ">>)
        spaces == Occurrences(prefix, <<" ">>)
    IN IF paragraphs # {} THEN Max(paragraphs)
       ELSE IF sentences # {} THEN Max(sentences) + 1
       ELSE IF spaces # {} THEN Max(spaces)
       ELSE max_length

\* C24: a round on a remaining text longer than max_length cuts at the last
\* double newline of the first max_length characters, else right after the
\* period of the last ". " there, else at the last space there, else after
\* max_length characters; the emitted chunk and the new remaining text are the
\* two sides of that cut, stripped.
C24_CutByPreference ==
    [][(chunker.pc = "loop" /\ Len(chunker.remaining) > chunker.max_length) =>
          LET cut == PreferredCut(chunker.remaining, chunker.max_length) IN
          /\ chunker'.chunks =
                Append(chunker.chunks, Strip(Take(chunker.remaining, cut)))
          /\ chunker'.remaining = Strip(Drop(chunker.remaining, cut))
      ]_vars

\* a first round done on a text whose first max_length characters hold a double
\* newline, a later ". " and a later space: the chunk ends before the newlines
C24_Witness ==
    LET prefix == Take(chunker.text, chunker.max_length) IN
    /\ Len(chunker.text) > chunker.max_length
    /\ Len(chunker.chunks) >= 1
    /\ HasBoundary(prefix, <<"\n", "\n">>)
    /\ HasBoundary(prefix, <<".", " ">>)
    /\ Max(Occurrences(prefix, <<"\n", "\n">>)) >= 1
    /\ Max(Occurrences(prefix, <<".", " ">>)) >
          Max(Occurrences(prefix, <<"\n", "\n">>))
    /\ chunker.chunks[1] =
          Strip(Take(chunker.text, Max(Occurrences(prefix, <<"\n", "\n">>))))
    /\ chunker.chunks[1] # <<>>

RECURSIVE Concat(_)
Concat(chunks) ==
    IF chunks = <<>> THEN <<>> ELSE Head(chunks) \o Concat(Tail(chunks))

NoWhitespace(text) == \A i \in DOMAIN text : ~IsSpace(text[i])

\* L / n rounded up, for n >= 1
CeilDiv(L, n) == (L + n - 1) \div n

\* C25: a returned call on a text without whitespace that is longer than
\* max_length gives ceil(L / max_length) chunks, each but the last of exactly
\* max_length characters, which put together are the text.
C25_HardCutChunks ==
    (/\ Returned
     /\ chunker.max_length >= 1
     /\ Len(chunker.text) > chunker.max_length
     /\ NoWhitespace(chunker.text)) =>
        /\ Len(chunker.chunks) = CeilDiv(Len(chunker.text), chunker.max_length)
        /\ \A i \in 1..(Len(chunker.chunks) - 1) :
              Len(chunker.chunks[i]) = chunker.max_length
        /\ Concat(chunker.chunks) = chunker.text

\* a returned call that hard cut a text into full chunks and a shorter last one
C25_Witness ==
    /\ Returned
    /\ chunker.max_length >= 2
    /\ NoWhitespace(chunker.text)
    /\ Len(chunker.chunks) >= 3
    /\ Len(chunker.chunks[Len(chunker.chunks)]) < chunker.max_length
    /\ Concat(chunker.chunks) = chunker.text

\* C26: every round of the loop that does not end the call leaves a remaining
\* text strictly shorter than it found.
C26_EveryRoundShortens ==
    [][(chunker.pc = "loop" /\ chunker'.pc = "loop") =>
          Len(chunker'.remaining) < Len(chunker.remaining)
      ]_vars

\* with max_length >= 1 every round shortens the remaining text
RoundsShortenFromOne ==
    [][(chunker.pc = "loop" /\ chunker'.pc = "loop" /\ chunker.max_length >= 1) =>
          Len(chunker'.remaining) < Len(chunker.remaining)
      ]_vars

\* text with every whitespace character deleted
RECURSIVE Squeeze(_)
Squeeze(text) ==
    IF text = <<>> THEN <<>>
    ELSE IF IsSpace(Head(text)) THEN Squeeze(Tail(text))
    ELSE <<Head(text)>> \o Squeeze(Tail(text))

\* C39: for max_length >= 1, the chunks produced so far followed by the text
\* still to cut hold the characters of the text other than whitespace, all of
\* them, once each and in their order; so do the chunks of a returned call.
C39_NoContentLost ==
    (chunker.max_length >= 1 /\ chunker.pc \in {"loop", "done"}) =>
        Squeeze(Concat(chunker.chunks)
                    \o (IF chunker.pc = "loop" THEN chunker.remaining ELSE <<>>))
            = Squeeze(chunker.text)

\* a returned call of three chunks or more on a text with a ". " in it: the
\* chunks together are shorter than the text and hold its characters other
\* than whitespace
C39_Witness ==
    /\ Returned
    /\ chunker.max_length >= 1
    /\ Len(chunker.chunks) >= 3
    /\ HasBoundary(chunker.text, <<".", " ">>)
    /\ Len(Concat(chunker.chunks)) < Len(chunker.text)
    /\ Squeeze(Concat(chunker.chunks)) = Squeeze(chunker.text)
    /\ Len(Squeeze(chunker.text)) >= 4

\* C40: of a text longer than max_length (max_length >= 1) chunk_message
\* produces no empty chunk.
C40_NoEmptyChunk ==
    (chunker.max_length >= 1 /\ Len(chunker.text) > chunker.max_length) =>
        \A i \in DOMAIN chunker.chunks : chunker.chunks[i] # <<>>

\* --------------------------------------- claims on bot.on_message, continued

\* the step posts a message of the assistant itself in text channel c
OwnMessagePosted(c) ==
    /\ Len(channel_history'[c]) = Len(channel_history[c]) + 1
    /\ channel_history'[c][Len(channel_history'[c])].author_id = BotUserId

\* C27: the arrival of a message written by the assistant itself changes no
\* entry of the store and no conversation object (messages, participants,
\* last_activity and the rest), and leaves every handler where it was: nothing
\* is generated or sent for it.
C27_OwnMessageIgnored ==
    [][\A c \in Channels :
          OwnMessagePosted(c) =>
              /\ conversations' = conversations
              /\ heap' = heap
              /\ handlers' = handlers
      ]_vars

\* the newest message of c1 is the assistant's own, the channel has a live
\* conversation, and that conversation holds no record of it
C27_Witness ==
    LET posted == channel_history["c1"] IN
    /\ posted # <<>>
    /\ posted[Len(posted)].author_id = BotUserId
    /\ Live("c1")
    /\ BotUserId \notin heap[conversations["c1"]].participants
    /\ \A k \in DOMAIN heap[conversations["c1"]].messages :
          heap[conversations["c1"]].messages[k].author_id # BotUserId

\* the records are in the order in which their messages were created
Chronological(messages) ==
    \A i, k \in DOMAIN messages :
        i < k => messages[i].timestamp <= messages[k].timestamp

IsPrefix(short, long) ==
    Len(short) <= Len(long) /\ SubSeq(long, 1, Len(short)) = short

\* for as long as a channel keeps its conversation, the step only appends
MessagesAppendOnly ==
    [][\A c \in DOMAIN conversations :
          (c \in DOMAIN conversations' /\ conversations'[c] = conversations[c]) =>
              IsPrefix(heap[conversations[c]].messages,
                       heap'[conversations'[c]].messages)
      ]_vars

\* C28: the messages of every conversation in the store are in the order of
\* their creation, the seed given to start included, and a step changes the
\* messages of a conversation that stays in the store only by appending.
C28_MessagesChronologicalAppendOnly ==
    [][/\ \A c \in DOMAIN conversations' :
             Chronological(heap'[conversations'[c]].messages)
       /\ \A c \in DOMAIN conversations :
             (c \in DOMAIN conversations' /\ conversations'[c] = conversations[c]) =>
                 IsPrefix(heap[conversations[c]].messages,
                          heap'[conversations'[c]].messages)
      ]_vars

\* the conversation object the handler holds in its local `conversation`
HeldBy(h) == heap[TheValue(handlers[h].conversation)]

\* C29: a handler comes to wait for run_agent only in the step that recorded
\* its message in the channel's conversation (record_message, or start with the
\* message last in the seed); it starts sending only with the chunks of a
\* generated reply, none sent yet; it sends them one by one; and the prior-turn
\* history of a conversation changes only in the step in which a handler sends
\* its last chunk, to the history its conversation has at that moment followed
\* by the turns run_agent returned to it.
C29_RecordGenerateSendRecord ==
    [][/\ \A h \in Handlers :
            /\ (handlers'[h].pc = "gen" /\ handlers[h].pc # "gen") =>
                  LET m == TheValue(handlers'[h].message)
                      c == m.channel_id
                  IN /\ handlers[h].pc \in {"idle", "backfill"}
                     /\ c \in DOMAIN conversations'
                     /\ handlers'[h].conversation = Some(conversations'[c])
                     /\ LET msgs == heap'[conversations'[c]].messages
                        IN msgs # <<>> /\ msgs[Len(msgs)] = ToRecord(m)
            /\ (handlers'[h].pc = "send" /\ handlers[h].pc # "send") =>
                  /\ handlers[h].pc = "gen"
                  /\ handlers'[h].sent = 0
                  /\ \E response \in Responses :
                        handlers'[h].chunks =
                            chunk_message(response, MaxResponseLength)
            /\ (handlers'[h].pc = "send" /\ handlers[h].pc = "send"
                    /\ handlers'[h] # handlers[h]) =>
                  /\ handlers'[h].chunks = Tail(handlers[h].chunks)
                  /\ handlers'[h].sent = handlers[h].sent + 1
            /\ (DeliversReply(h) /\ ChannelOf(h) \in DOMAIN conversations) =>
                  heap'[conversations[ChannelOf(h)]].llm_history =
                      HeldBy(h).llm_history \o handlers[h].new_messages
       /\ \A i \in DOMAIN heap \cap DOMAIN heap' :
            heap'[i].llm_history # heap[i].llm_history =>
                \E h \in Handlers :
                    /\ DeliversReply(h)
                    /\ ChannelOf(h) \in DOMAIN conversations
                    /\ conversations[ChannelOf(h)] = i
      ]_vars

\* a first reply is folded into the conversation of c1, and a handler working
\* on the same conversation has sent the first of two chunks and holds the last
C29_Witness ==
    /\ "c1" \in DOMAIN conversations
    /\ heap[conversations["c1"]].llm_history # <<>>
    /\ \E h \in Handlers :
          /\ handlers[h].pc = "send"
          /\ handlers[h].sent = 1
          /\ Len(handlers[h].chunks) = 1
          /\ handlers[h].conversation = Some(conversations["c1"])

\* the record of the handler's message is among the messages of the
\* conversation object it holds
HoldsRecorded(hs, hp, h) ==
    LET msgs == hp[TheValue(hs[h].conversation)].messages IN
    \E k \in DOMAIN msgs : msgs[k] = ToRecord(TheValue(hs[h].message))

\* the step changes no entry of the store and no conversation object
StoreUntouched ==
    /\ conversations' = conversations
    /\ \A c \in DOMAIN conversations : conversations[c] \in DOMAIN heap'
    /\ \A i \in DOMAIN heap \cap DOMAIN heap' : heap'[i] = heap[i]

C31_BackfillFailureStillStarts ==
    [][\A h \in Handlers :
          (handlers[h].pc = "backfill" /\ handlers'[h] # handlers[h]) =>
              LET m == TheValue(handlers[h].message)
                  c == m.channel_id
              IN /\ Starts(c)
                 /\ handlers'[h].pc = "gen"
                 /\ handlers'[h].conversation = Some(conversations'[c])
                 /\ \E seed \in load_recent_messages_for_conversation(
                                    channel_history[c]) :
                       heap'[conversations'[c]].messages =
                           Append(seed, ToRecord(m))
      ]_vars

\* a conversation started in c1 from an empty seed although the channel holds
\* messages of users: the reading failed before its first message, and the
\* handler waits for run_agent with the triggering message alone recorded
C31_Witness ==
    \E h \in Handlers :
        /\ handlers[h].pc = "gen"
        /\ "c1" \in DOMAIN conversations
        /\ handlers[h].conversation = Some(conversations["c1"])
        /\ heap[conversations["c1"]].messages =
              <<ToRecord(TheValue(handlers[h].message))>>
        /\ SkipOwn(channel_history["c1"]) # <<>>
        /\ heap[conversations["c1"]].llm_history = <<>>
        /\ TheValue(handlers[h].message).id = 2

\* C34: send_chunked_response gives the chunks of chunk_message to the channel
\* one per send and in their order: it starts with nothing sent, every send
\* that completes hands over the first chunk not yet sent, and with the send
\* of the last chunk the channel has received exactly the chunks of the reply,
\* in as many sends as there are chunks.
C34_OneSendPerChunkInOrder ==
    [][\A h \in Handlers :
          /\ (handlers'[h].pc = "send" /\ handlers[h].pc # "send") =>
                /\ handlers'[h].delivered = <<>>
                /\ handlers'[h].sent = 0
          /\ (handlers[h].pc = "send" /\ handlers'[h].pc = "send"
                  /\ handlers'[h] # handlers[h]) =>
                /\ handlers'[h].sent = handlers[h].sent + 1
                /\ \E response \in Responses :
                      LET all == chunk_message(response, MaxResponseLength) IN
                      /\ handlers'[h].delivered =
                            SubSeq(all, 1, handlers'[h].sent)
                      /\ handlers'[h].chunks =
                            SubSeq(all, handlers'[h].sent + 1, Len(all))
          /\ DeliversReply(h) =>
                \E response \in Responses :
                    LET all == chunk_message(response, MaxResponseLength) IN
                    /\ Append(handlers[h].delivered, handlers[h].chunks[1]) = all
                    /\ handlers[h].sent + 1 = Len(all)
      ]_vars

\* the first of the two chunks of a reply longer than the limit has been sent
\* and the second is the one left to send
C34_Witness ==
    \E h \in Handlers :
        /\ handlers[h].pc = "send"
        /\ handlers[h].sent = 1
        /\ handlers[h].delivered = <<<<"a", "b">>>>
        /\ handlers[h].chunks = <<<<"c", "d">>>>

\* C36: the prior-turn history and the reply time of a conversation object
\* change only when a handler that holds that very object delivers its reply:
\* a handler whose conversation is no longer the entry of its channel writes
\* nothing into the conversation that took its place.
C36_HistoryOnlyFromOwnHandlers ==
    [][\A i \in DOMAIN heap \cap DOMAIN heap' :
          (\/ heap'[i].llm_history # heap[i].llm_history
           \/ heap'[i].last_bot_response # heap[i].last_bot_response) =>
              \E h \in Handlers :
                  /\ DeliversReply(h)
                  /\ handlers[h].conversation = Some(i)
      ]_vars

\* C37: a handler calls start for a channel only when the channel has no live
\* conversation at that moment: no entry, or one whose timeout has run out.
C37_StartOnlyWithoutLiveConversation ==
    [][\A h \in Handlers :
          (handlers[h].pc = "backfill" /\ handlers'[h] # handlers[h]) =>
              ~Live(ChannelOf(h))
      ]_vars

\* the seconds since the assistant's last reply was recorded for channel c
SinceReply(c) == now - TheValue(heap[conversations[c]].last_bot_response)

\* the assistant's reply was recorded for channel c less than followup_window
\* seconds ago
RepliedRecently(c) ==
    /\ c \in DOMAIN conversations
    /\ heap[conversations[c]].last_bot_response # None
    /\ SinceReply(c) < followup_window

\* C38: with timeout >= followup_window, a message of a user that looks like a
\* followup (and is no mention or reply) and arrives less than followup_window
\* seconds after the assistant's reply was recorded for its channel finds that
\* conversation in the store, and its handler goes on to run_agent with reason
\* recent_followup.
C38_FollowupInWindowAnswered ==
    [][\A h \in Handlers, m \in Inbound(arrivals + 1) :
          (/\ OnMessage(h, m)
           /\ timeout >= followup_window
           /\ m.author_id # BotUserId
           /\ IsTextChannel(m.channel_id)
           /\ _looks_like_followup(m)
           /\ ~Triggers(m)
           /\ RepliedRecently(m.channel_id)) =>
              /\ m.channel_id \in DOMAIN conversations'
              /\ conversations'[m.channel_id] = conversations[m.channel_id]
              /\ handlers'[h].pc = "gen"
              /\ handlers'[h].reason = "recent_followup"
      ]_vars

====
